---------------------------- MODULE Spec2Model ----------------------------
(***************************************************************************)
(* Model of the QuickBooks (Drivepoint) source connector:                  *)
(*   - QuickbooksReportMonthlyBase.stream_slices   (streams.py)            *)
(*   - QuickbooksReportMonthlyBase.request_params  (streams.py)            *)
(*   - QuickbooksOauth2Authenticator               (source.py)             *)
(*   - QuickbooksReportMonthlyBase.parse_response / _process_rows          *)
(*   - QuickbooksReportMonthlyBase.get_json_schema (streams.py)            *)
(*                                                                         *)
(* A Python str is modelled as the sequence of its characters (each a      *)
(* one-character TLA+ string), so that formatting, parsing, replace(),     *)
(* lower(), split() and join() are computed and not assumed.               *)
(* A Python dict is a function from its keys; None is the value None.      *)
(***************************************************************************)
EXTENDS Integers, Sequences, FiniteSets, TLC

VARIABLES
    \* ---- period slicer (streams.py, stream_slices) ----
    start_date,      \* self.start_date : None, "" or a "YYYY-MM-DD" string
    end_date,        \* self.end_date
    today,           \* the date datetime.now() returned, NotRead while not read
    slices_call,     \* outcome of the stream_slices call
    stream_slice,    \* the stream_slice argument of the request_params call
    params_call,     \* outcome of the request_params call
    \* ---- authenticator (source.py) ----
    now,             \* int(time.time())
    token_expiry_date, \* self.token_expiry_date : <<>> for None, <<t>> otherwise
    refresh_token,   \* self.refresh_token
    refresh_call,    \* outcome of the last refresh_access_token call
    last_response,   \* the response that call received
    refreshed_at,    \* history: <<t, e>> of the last call that returned normally
    token_before,    \* history: self.refresh_token before the last call
    form_data,       \* the form data the last call posted to the token endpoint
    returned_token,  \* history: the refresh token most recently returned by a
                     \* call that returned normally, the configured one if none
    returned_before, \* history: returned_token before the last call
    \* ---- report flattener (streams.py, parse_response) ----
    report_kind,     \* last path component: "BalanceSheet" or "ProfitAndLoss"
    response_json,   \* the report response body
    parse_pc,        \* "received" until parse_response has run, then "parsed"
    column_classes,  \* history: the class labels parse_response built
    accounts,        \* the list parse_response returned
    emitted_under    \* history: the ancestry context each record was emitted under

slicer_vars == <<start_date, end_date, today, slices_call, stream_slice, params_call>>
token_vars  == <<now, token_expiry_date, refresh_token, refresh_call,
                 last_response, refreshed_at, token_before, form_data,
                 returned_token, returned_before>>
report_vars == <<report_kind, response_json, parse_pc, column_classes, accounts,
                 emitted_under>>
vars == <<slicer_vars, token_vars, report_vars>>

\* Python's None, as a value no string (sequence of characters) equals.
None == <<"None">>

\* Python truthiness of an Optional[str]: None and "" are falsy.
Truthy(v) == v # None /\ v # <<>>

(***************************************************************************)
(* Strings                                                                 *)
(***************************************************************************)
DigitChars == <<"0", "1", "2", "3", "4", "5", "6", "7", "8", "9">>
Digit(n) == DigitChars[n + 1]
IsDigit(c) == \E n \in 0..9 : DigitChars[n + 1] = c
DigitVal(c) == CHOOSE n \in 0..9 : DigitChars[n + 1] = c

\* s[i..j] (1-based, inclusive), the empty string when j < i
Slice(s, i, j) == [k \in 1..(j - i + 1) |-> s[i + k - 1]]

\* sub occurs in s starting at position i
OccursAt(s, sub, i) ==
    /\ i >= 1
    /\ i + Len(sub) - 1 <= Len(s)
    /\ \A k \in 1..Len(sub) : s[i + k - 1] = sub[k]

\* Python: sub in s
Contains(s, sub) == \E i \in 1..(Len(s) + 1) : OccursAt(s, sub, i)

\* Python: s.split(sub)[0], the part of s before the first occurrence of sub
SplitFirst(s, sub) ==
    IF ~Contains(s, sub) THEN s
    ELSE LET i == CHOOSE p \in 1..(Len(s) + 1) :
                      /\ OccursAt(s, sub, p)
                      /\ \A q \in 1..(p - 1) : ~OccursAt(s, sub, q)
         IN  Slice(s, 1, i - 1)

\* Python: s.replace(c, "") for a one-character c
RECURSIVE RemoveChar(_, _)
RemoveChar(s, c) ==
    IF s = <<>> THEN <<>>
    ELSE IF Head(s) = c THEN RemoveChar(Tail(s), c)
         ELSE <<Head(s)>> \o RemoveChar(Tail(s), c)

UpperChars == <<"A", "B", "C", "L", "O", "T">>
LowerChars == <<"a", "b", "c", "l", "o", "t">>
LowerChar(c) ==
    IF \E i \in 1..Len(UpperChars) : UpperChars[i] = c
    THEN LowerChars[CHOOSE i \in 1..Len(UpperChars) : UpperChars[i] = c]
    ELSE c
\* Python: s.lower(), over the alphabet the model's titles use
Lower(s) == [i \in 1..Len(s) |-> LowerChar(s[i])]

\* Python: sep.join(parts)
RECURSIVE Join(_, _)
Join(parts, sep) ==
    IF parts = <<>> THEN <<>>
    ELSE IF Len(parts) = 1 THEN Head(parts)
         ELSE Head(parts) \o sep \o Join(Tail(parts), sep)

(***************************************************************************)
(* Dates                                                                   *)
(***************************************************************************)
\* pendulum.datetime(year, month, day): a calendar date at midnight
Date(y, m, d) == [year |-> y, month |-> m, day |-> d]

IsLeapYear(y) == (y % 4 = 0 /\ y % 100 # 0) \/ y % 400 = 0

DaysInMonth(y, m) ==
    IF m = 2 THEN (IF IsLeapYear(y) THEN 29 ELSE 28)
    ELSE IF m \in {4, 6, 9, 11} THEN 30 ELSE 31

\* a <= b and a > b on pendulum datetimes
DateLE(a, b) ==
    \/ a.year < b.year
    \/ a.year = b.year /\ a.month < b.month
    \/ a.year = b.year /\ a.month = b.month /\ a.day <= b.day
DateGT(a, b) == ~DateLE(a, b)

\* d.add(days=-1)
AddDaysMinusOne(d) ==
    IF d.day > 1 THEN Date(d.year, d.month, d.day - 1)
    ELSE IF d.month > 1
         THEN Date(d.year, d.month - 1, DaysInMonth(d.year, d.month - 1))
         ELSE Date(d.year - 1, 12, 31)

\* d.format("YYYY-MM-DD")
Format(d) ==
    << Digit(d.year \div 1000), Digit((d.year \div 100) % 10),
       Digit((d.year \div 10) % 10), Digit(d.year % 10), "-",
       Digit(d.month \div 10), Digit(d.month % 10), "-",
       Digit(d.day \div 10), Digit(d.day % 10) >>

\* datetime.strptime(s, "%Y-%m-%d"): the date, or ValueError when s does not
\* name a day of the calendar
Strptime(s) ==
    IF /\ Len(s) = 10
       /\ s[5] = "-" /\ s[8] = "-"
       /\ \A i \in {1, 2, 3, 4, 6, 7, 9, 10} : IsDigit(s[i])
    THEN LET y == DigitVal(s[1]) * 1000 + DigitVal(s[2]) * 100
                  + DigitVal(s[3]) * 10 + DigitVal(s[4])
             m == DigitVal(s[6]) * 10 + DigitVal(s[7])
             d == DigitVal(s[9]) * 10 + DigitVal(s[10])
         IN  IF m \in 1..12 /\ d >= 1 /\ d <= DaysInMonth(y, m)
             THEN [ok |-> TRUE, date |-> Date(y, m, d)]
             ELSE [ok |-> FALSE, date |-> Date(0, 0, 0)]
    ELSE [ok |-> FALSE, date |-> Date(0, 0, 0)]


(***************************************************************************)
(* Period slicer: QuickbooksReportMonthlyBase.stream_slices                *)
(***************************************************************************)
\* Bounds of the configured dates: NumMonths consecutive months starting at
\* FirstMonth (December 2023 .. March 2024: a year rollover and a leap February).
FirstMonth == [year |-> 2023, month |-> 12]
NumMonths == 4

MonthIndex(y, m) == y * 12 + (m - 1)
WindowMonths ==
    { ym \in [year : FirstMonth.year..(FirstMonth.year + 1 + NumMonths \div 12),
              month : 1..12] :
        /\ MonthIndex(ym.year, ym.month) >= MonthIndex(FirstMonth.year, FirstMonth.month)
        /\ MonthIndex(ym.year, ym.month) < MonthIndex(FirstMonth.year, FirstMonth.month) + NumMonths }

\* The calendar days of the window: what datetime.now() can return.
Dates ==
    { x \in { Date(ym.year, ym.month, d) : ym \in WindowMonths, d \in 1..31 } :
        x.day <= DaysInMonth(x.year, x.month) }
\* Configured strings: every "YYYY-MM-DD" of the window with a day 01..31, so
\* strings such as 2024-02-30, which strptime rejects, are among them.
DateStrings ==
    { Format(Date(ym.year, ym.month, d)) : ym \in WindowMonths, d \in 1..31 }
ConfigValues == {None, <<>>} \cup DateStrings

\* datetime.now() has not been called
NotRead == Date(0, 0, 0)

\* a dict with no key, and the dict of one slice
EmptyDict == [k \in {} |-> <<>>]
SliceDict(s, e) == [start_date |-> s, end_date |-> e]

\* stream_slice = None: no slice was passed
NoSlice == [no_slice |-> TRUE]

Pending == [kind |-> "pending", value |-> <<>>, error |-> ""]
Return(v) == [kind |-> "return", value |-> v, error |-> ""]
Raise(e) == [kind |-> "raise", value |-> <<>>, error |-> e]

\* Mutant: no slice at all when there is no start date.
NoDateSlices_Empty == <<>>

\* line 41: the slice list returned when there is no start date
NoDateSlices == <<EmptyDict>>

\* lines 72-80: pendulum.datetime(next_month_year, next_month, 1)
NextMonthFirst(current_start) ==
    IF current_start.month = 12
    THEN Date(current_start.year + 1, 1, 1)
    ELSE Date(current_start.year, current_start.month + 1, 1)

\* Mutant: the chunk always runs to the end of its month (lines 84-85 left out).
CurrentEnd_Unclipped(current_start, end) ==
    AddDaysMinusOne(NextMonthFirst(current_start))

\* lines 81-85: the end of the chunk that starts at current_start
CurrentEnd(current_start, end) ==
    LET month_end == AddDaysMinusOne(NextMonthFirst(current_start))
    IN  IF DateGT(month_end, end) THEN end ELSE month_end

\* lines 64-95: the while loop, from current_start with the slices built so far
RECURSIVE MonthlyChunks(_, _, _)
MonthlyChunks(current_start, end, slices) ==
    IF ~DateLE(current_start, end) THEN slices
    ELSE MonthlyChunks(NextMonthFirst(current_start), end,
             Append(slices, SliceDict(Format(current_start),
                                      Format(CurrentEnd(current_start, end)))))

\* stream_slices reads datetime.now() only when a start date is configured,
\* parses, and no end date is configured (line 55)
ReadsClock(sd, ed) == Truthy(sd) /\ Strptime(sd).ok /\ ~Truthy(ed)

\* lines 39-95: the outcome of stream_slices; clock is what datetime.now() gave
StreamSlicesOutcome(sd, ed, clock) ==
    IF ~Truthy(sd) THEN Return(NoDateSlices)
    ELSE IF ~Strptime(sd).ok THEN Raise("ValueError")
    ELSE IF Truthy(ed)
         THEN IF ~Strptime(ed).ok THEN Raise("ValueError")
              ELSE Return(MonthlyChunks(Strptime(sd).date, Strptime(ed).date, <<>>))
         ELSE Return(MonthlyChunks(Strptime(sd).date, clock, <<>>))

SlicerIdle ==
    /\ start_date = None
    /\ end_date = None
    /\ today = NotRead
    /\ slices_call = Pending
    /\ stream_slice = NoSlice
    /\ params_call = Pending

SlicerInit ==
    /\ start_date \in ConfigValues
    /\ end_date \in ConfigValues
    /\ today = NotRead
    /\ slices_call = Pending
    /\ stream_slice = NoSlice
    /\ params_call = Pending

StreamSlices ==
    /\ slices_call.kind = "pending"
    /\ IF ReadsClock(start_date, end_date)
       THEN \E t \in Dates :
               /\ today' = t
               /\ slices_call' = StreamSlicesOutcome(start_date, end_date, t)
       ELSE /\ today' = today
            /\ slices_call' = StreamSlicesOutcome(start_date, end_date, today)
    /\ UNCHANGED <<start_date, end_date, stream_slice, params_call>>

\* a dict with key k set to v
WithKey(dict, k, v) == [x \in (DOMAIN dict) \cup {k} |-> IF x = k THEN v ELSE dict[x]]

\* Python: dict.get(k)
Get(dict, k) == IF k \in DOMAIN dict THEN dict[k] ELSE None

\* Python truthiness of the stream_slice argument: None and {} are falsy
TruthySlice(slice) == slice # NoSlice /\ DOMAIN slice # {}

\* lines 103-111
BaseParams ==
    [accounting_method |-> "Accrual", minorversion |-> 70, summarize_column_by |-> "Classes"]

\* lines 124, 126: pendulum.parse(s).date().strftime("%Y-%m-%d") of a configured
\* "YYYY-MM-DD" string: the same day, formatted, or a parser error for a day
\* the calendar does not have
ParseAndFormat(date_string) ==
    IF Strptime(date_string).ok
    THEN [ok |-> TRUE, text |-> Format(Strptime(date_string).date)]
    ELSE [ok |-> FALSE, text |-> <<>>]

\* Mutant: a request without slice dates never falls back to the configured
\* dates.
FallbackParams_None(params, sd, ed) == Return(params)

\* lines 122-126: the dates of the stream, for a call without slice dates
FallbackParams(params, sd, ed) ==
    IF Truthy(sd) /\ ~ParseAndFormat(sd).ok THEN Raise("ParserError")
    ELSE IF Truthy(ed) /\ ~ParseAndFormat(ed).ok THEN Raise("ParserError")
    ELSE LET p1 == IF Truthy(sd)
                   THEN WithKey(params, "start_date", ParseAndFormat(sd).text)
                   ELSE params
         IN  Return(IF Truthy(ed)
                    THEN WithKey(p1, "end_date", ParseAndFormat(ed).text)
                    ELSE p1)

\* lines 115-120: the dates of the slice
SliceParams(params, slice) ==
    LET p1 == IF Truthy(Get(slice, "start_date"))
              THEN WithKey(params, "start_date", slice.start_date)
              ELSE params
    IN  IF Truthy(Get(slice, "end_date"))
        THEN WithKey(p1, "end_date", slice.end_date)
        ELSE p1

\* lines 97-128: the outcome of request_params for a stream_slice argument
RequestParamsOutcome(slice, sd, ed) ==
    IF TruthySlice(slice)
    THEN Return(SliceParams(BaseParams, slice))
    ELSE FallbackParams(BaseParams, sd, ed)

\* request_params is called with one of the slices stream_slices returned, or
\* without a slice (read_records(sync_mode=None), source.py line 36)
RequestParams ==
    /\ slices_call.kind = "return"
    /\ params_call.kind = "pending"
    /\ \E slice \in {slices_call.value[k] : k \in 1..Len(slices_call.value)} \cup {NoSlice} :
           /\ stream_slice' = slice
           /\ params_call' = RequestParamsOutcome(slice, start_date, end_date)
    /\ UNCHANGED <<start_date, end_date, today, slices_call>>

(***************************************************************************)
(* Authenticator: QuickbooksOauth2Authenticator                            *)
(***************************************************************************)
\* Bounds: the clock runs 0..MaxTime, a response grants 0..MaxExpiresIn seconds.
MaxTime == 3
MaxExpiresIn == 2

\* Refresh tokens; ConfiguredToken is the one passed to __init__.
ConfiguredToken == "rt0"
RefreshTokens == {"rt0", "rt1", "rt2"}

\* The attributes __init__ and refresh_access_token set on the authenticator.
AuthenticatorAttrs == {"refresh_token", "access_token", "token_expiry_date"}

\* Responses of the token endpoint: a status code and a body, which is either
\* not JSON, an error object, or a token object {access_token, expires_in?,
\* refresh_token?}.
StatusCodes == {200, 201, 302, 401}
NotJson == [not_json |-> TRUE]
TokenBodies ==
    { [access_token |-> "at"] }
    \cup { [access_token |-> "at", refresh_token |-> r] : r \in RefreshTokens }
    \cup { [access_token |-> "at", expires_in |-> e] : e \in 0..MaxExpiresIn }
    \cup { [access_token |-> "at", expires_in |-> e, refresh_token |-> r] :
             e \in 0..MaxExpiresIn, r \in RefreshTokens }
Bodies == {NotJson, [error |-> "invalid_grant"]} \cup TokenBodies
Responses == [status_code : StatusCodes, body : Bodies]
NoResponse == [status_code |-> 0, body |-> NotJson]

IsJson(body) == "not_json" \notin DOMAIN body
HasKey(body, k) == IsJson(body) /\ k \in DOMAIN body

\* the exception refresh_access_token raises: line 120 wraps the cause, which
\* for an HTTPError holds the response (status and body)
RefreshError(type, response) ==
    [kind |-> "raise", value |-> <<>>, cause |-> [type |-> type, response |-> response]]
RefreshReturn(access_token, expires_in) ==
    [kind |-> "return", value |-> <<access_token, expires_in>>,
     cause |-> [type |-> "", response |-> NoResponse]]
NotCalled ==
    [kind |-> "pending", value |-> <<>>, cause |-> [type |-> "", response |-> NoResponse]]

\* Mutant: a token that expires now is still taken as fresh.
TokenHasExpired_Strict ==
    IF token_expiry_date = <<>> THEN TRUE
    ELSE now > token_expiry_date[1]

\* lines 82-88
TokenHasExpired ==
    IF token_expiry_date = <<>> THEN TRUE
    ELSE now >= token_expiry_date[1]

\* line 107: requests' Response.raise_for_status raises HTTPError for a 4xx or
\* 5xx status and returns for every other status
RaiseForStatusRaises(status_code) == status_code >= 400 /\ status_code < 600

\* lines 105-107: the call ends here with an HTTPError
FailsOnStatus(response) ==
    response.status_code # 200 /\ RaiseForStatusRaises(response.status_code)

\* Mutant: the refresh token of the response is not stored.
StoredRefreshToken_Kept(current, body) == current

\* lines 112-113
StoredRefreshToken(current, body) ==
    IF HasKey(body, "refresh_token") THEN body.refresh_token ELSE current

\* Mutant: the lifetime is recorded instead of the time of expiry.
NewExpiryDate_Lifetime(current_time, expires_in) == expires_in

\* line 116
NewExpiryDate(current_time, expires_in) == current_time + expires_in

\* lines 90-120: the outcome of the call and the attributes after it
RefreshOutcome(response, current_time, current_token, current_expiry) ==
    IF FailsOnStatus(response)
    THEN [call |-> RefreshError("HTTPError", response),
          refresh_token |-> current_token, token_expiry_date |-> current_expiry]
    ELSE IF ~IsJson(response.body)
    THEN [call |-> RefreshError("JSONDecodeError", NoResponse),
          refresh_token |-> current_token, token_expiry_date |-> current_expiry]
    ELSE IF ~HasKey(response.body, "expires_in")
    THEN [call |-> RefreshError("KeyError", NoResponse),
          refresh_token |-> StoredRefreshToken(current_token, response.body),
          token_expiry_date |-> current_expiry]
    ELSE IF ~HasKey(response.body, "access_token")
    THEN [call |-> RefreshError("KeyError", NoResponse),
          refresh_token |-> StoredRefreshToken(current_token, response.body),
          token_expiry_date |-> <<NewExpiryDate(current_time, response.body.expires_in)>>]
    ELSE [call |-> RefreshReturn(response.body.access_token, response.body.expires_in),
          refresh_token |-> StoredRefreshToken(current_token, response.body),
          token_expiry_date |-> <<NewExpiryDate(current_time, response.body.expires_in)>>]

\* Oauth2Authenticator.get_refresh_token of the base class: the base class
\* keeps the refresh token its constructor was given (line 75) and returns it;
\* the attribute self.refresh_token (lines 69 and 113) is the subclass's own
\* and is not read here. constructed is the constructor's argument, stored the
\* current self.refresh_token.
GetRefreshToken(constructed, stored) == constructed

\* lines 92-97: the form data of the exchange
NoForm == [grant_type |-> "", refresh_token |-> "", client_id |-> "", client_secret |-> ""]
FormData(token) ==
    [grant_type |-> "refresh_token", refresh_token |-> token,
     client_id |-> "client_id", client_secret |-> "client_secret"]

\* lines 69-80: the authenticator after construction
TokenInit ==
    /\ now = 0
    /\ token_expiry_date = <<>>
    /\ refresh_token = ConfiguredToken
    /\ token_before = ConfiguredToken
    /\ refresh_call = NotCalled
    /\ last_response = NoResponse
    /\ refreshed_at = <<>>
    /\ form_data = NoForm
    /\ returned_token = ConfiguredToken
    /\ returned_before = ConfiguredToken

\* time passes
Tick ==
    /\ now < MaxTime
    /\ now' = now + 1
    /\ UNCHANGED <<token_expiry_date, refresh_token, token_before, refresh_call,
                   last_response, refreshed_at, form_data, returned_token,
                   returned_before>>

\* one call of refresh_access_token, answered by any response
RefreshAccessToken ==
    \E response \in Responses :
        LET out == RefreshOutcome(response, now, refresh_token, token_expiry_date)
        IN  /\ last_response' = response
            /\ refresh_call' = out.call
            /\ token_before' = refresh_token
            /\ refresh_token' = out.refresh_token
            /\ token_expiry_date' = out.token_expiry_date
            /\ refreshed_at' = IF out.call.kind = "return"
                               THEN <<now, response.body.expires_in>>
                               ELSE refreshed_at
            /\ form_data' = FormData(GetRefreshToken(ConfiguredToken, refresh_token))
            /\ returned_before' = returned_token
            /\ returned_token' = IF /\ out.call.kind = "return"
                                    /\ HasKey(response.body, "refresh_token")
                                 THEN response.body.refresh_token
                                 ELSE returned_token
            /\ UNCHANGED now

(***************************************************************************)
(* Report flattener: parse_response and _process_rows                      *)
(***************************************************************************)
\* String literals of the model (a str is the sequence of its characters).
sColon == <<":">>
sAtIndex == <<" ", "a", "t", " ", "i", "n", "d", "e", "x", " ">>
sColumnPrefix == <<"C", "o", "l", "u", "m", "n", "_">>
sTotalLower == <<"t", "o", "t", "a", "l">>
sAccount == <<"A", "c", "c", "o", "u", "n", "t">>
sClassA == <<"C", "l", "a", "s", "s", "A">>
sClassB == <<"C", "l", "a", "s", "s", "B">>
sClassDashed == <<"C", "l", "a", "s", "s", "-", "A", " ", "B">>
sTotalUpper == <<"T", "O", "T", "A", "L">>
sTotalSpaced == <<"T", "o", " ", "t", "a", "l">>
sAssets == <<"A", "s", "s", "e", "t", "s">>
sCurrentAssets == <<"C", "u", "r", "r", "e", "n", "t", " ", "A", "s", "s", "e", "t", "s">>
sChecking == <<"C", "h", "e", "c", "k", "i", "n", "g">>
sCash == <<"C", "a", "s", "h">>
sUSD == <<"U", "S", "D">>

\* Mutant: the id is stored as the source gives it.
CleanId_Raw(id) == id

\* lines 218-219, 247-248, 251-252, 290-291: drop the " at index <n>" suffix
CleanId(id) ==
    IF id # <<>> /\ Contains(id, sAtIndex) THEN SplitFirst(id, sAtIndex) ELSE id

\* line 184: the label of the column that stands at index i of the report
ClassName(col_title, i) ==
    IF col_title # <<>>
    THEN RemoveChar(RemoveChar(col_title, " "), "-")
    ELSE sColumnPrefix \o <<Digit(i)>>

\* line 186: the column is skipped
SkipsTotal(classes, class_name) ==
    Len(classes) > 1 /\ Lower(class_name) = sTotalLower

\* lines 181-190: the loop over columns[1:], numbered from i
RECURSIVE ColumnClasses(_, _, _)
ColumnClasses(cols, i, classes) ==
    IF cols = <<>> THEN classes
    ELSE LET class_name == ClassName(Head(cols).ColTitle, i)
         IN  IF SkipsTotal(classes, class_name)
             THEN ColumnClasses(Tail(cols), i + 1, classes)
             ELSE ColumnClasses(Tail(cols), i + 1, Append(classes, class_name))

\* lines 203-207
IsProfitLoss(path_tail) == path_tail = "ProfitAndLoss"

\* the ancestry arguments of _process_rows (lines 199-200)
Context(parent, parent_id, grandparent, grandparent_id, category, category_id, section_type) ==
    [parent_name |-> parent, parent_id |-> parent_id,
     grandparent_name |-> grandparent, grandparent_id |-> grandparent_id,
     category_name |-> category, category_id |-> category_id,
     section_type |-> section_type]
RootContext == Context(<<>>, <<>>, <<>>, <<>>, <<>>, <<>>, <<>>)

InPath(path, name) == \E k \in 1..Len(path) : path[k] = name

\* line 235: the account name joins the path
AppendsAccountName(path, account_name) == account_name # <<>>

\* lines 221-236
FullAccountPath(ctx, account_name) ==
    LET p1 == IF ctx.category_name # <<>> THEN <<ctx.category_name>> ELSE <<>>
        p2 == IF /\ ctx.section_type # <<>>
                 /\ ctx.section_type # ctx.category_name
                 /\ ~InPath(p1, ctx.section_type)
              THEN Append(p1, ctx.section_type) ELSE p1
        p3 == IF /\ ctx.grandparent_name # <<>>
                 /\ ctx.grandparent_name # ctx.section_type
                 /\ ~InPath(p2, ctx.grandparent_name)
              THEN Append(p2, ctx.grandparent_name) ELSE p2
        p4 == IF ctx.parent_name # <<>> /\ ~InPath(p3, ctx.parent_name)
              THEN Append(p3, ctx.parent_name) ELSE p3
    IN  IF AppendsAccountName(p4, account_name) THEN Append(p4, account_name) ELSE p4

\* Mutant: a data row needs an account cell and two amounts.
HasAccountCells_Three(col_data) == Len(col_data) >= 3

\* line 215: the data row yields records
HasAccountCells(col_data) == Len(col_data) >= 2

\* lines 242-244: the amount of the class enumerated as i (from 1)
AmountAt(col_data, i) ==
    IF i < Len(col_data) THEN col_data[i + 1].value ELSE <<>>

\* Mutant: the grandparent of the context is recorded for every report kind.
ActualGrandparentName_Plain(is_profit_loss, ctx) == ctx.grandparent_name

\* lines 256-258
ActualGrandparentName(is_profit_loss, ctx) ==
    IF is_profit_loss /\ ctx.parent_name # <<>> /\ ctx.grandparent_name = <<>>
    THEN ctx.category_name
    ELSE ctx.grandparent_name

\* Mutant: the schema does not declare AccountType.
GetJsonSchema_NoAccountType ==
    [ type |-> "object",
      properties |->
        [ f \in {"_Account", "_Account_id", "StartPeriod", "EndPeriod", "Currency",
                 "ParentAccountName", "ParentAccountId", "GrandParentAccountName",
                 "GrandParentAccountId", "CategoryAccountName", "CategoryAccountId",
                 "Classification", "FullyQualifiedName",
                 "FullAccountName", "Class", "Total_Money"} |-> [type |-> "string"] ] ]

\* lines 367-390
GetJsonSchema ==
    [ type |-> "object",
      properties |->
        [ _Account |-> [type |-> "string"],
          _Account_id |-> [type |-> "string"],
          StartPeriod |-> [type |-> "string"],
          EndPeriod |-> [type |-> "string"],
          Currency |-> [type |-> "string"],
          ParentAccountName |-> [type |-> "string"],
          ParentAccountId |-> [type |-> "string"],
          GrandParentAccountName |-> [type |-> "string"],
          GrandParentAccountId |-> [type |-> "string"],
          CategoryAccountName |-> [type |-> "string"],
          CategoryAccountId |-> [type |-> "string"],
          Classification |-> [type |-> "string"],
          FullyQualifiedName |-> [type |-> "string"],
          AccountType |-> [type |-> "string"],
          FullAccountName |-> [type |-> "string"],
          Class |-> [type |-> "string"],
          Total_Money |-> [type |-> "string"] ] ]

\* lines 260-278
AccountRecord(row, header, is_profit_loss, ctx, class_name, i) ==
    [ _Account |-> row.ColData[1].value,
      _Account_id |-> CleanId(row.ColData[1].id),
      StartPeriod |-> header.StartPeriod,
      EndPeriod |-> header.EndPeriod,
      Currency |-> header.Currency,
      ParentAccountName |-> ctx.parent_name,
      ParentAccountId |-> CleanId(ctx.parent_id),
      GrandParentAccountName |-> ActualGrandparentName(is_profit_loss, ctx),
      GrandParentAccountId |-> CleanId(ctx.grandparent_id),
      CategoryAccountName |-> ctx.category_name,
      CategoryAccountId |-> ctx.category_id,
      Classification |-> row.group,
      FullyQualifiedName |-> <<>>,
      AccountType |-> <<>>,
      FullAccountName |-> Join(FullAccountPath(ctx, row.ColData[1].value), sColon),
      Class |-> class_name,
      Total_Money |-> AmountAt(row.ColData, i) ]

\* lines 212-279: the records of one Data row, each with the context it was
\* emitted under
DataRecords(row, header, classes, is_profit_loss, ctx) ==
    IF HasAccountCells(row.ColData)
    THEN [ i \in 1..Len(classes) |->
             [record |-> AccountRecord(row, header, is_profit_loss, ctx,
                                       classes[i], i),
              ctx |-> ctx] ]
    ELSE <<>>

\* lines 333-348
ProcessProfitLossHierarchy(ctx, section_display_name, section_id) ==
    Context(section_display_name, section_id,
            ctx.category_name, ctx.category_id,
            ctx.category_name, ctx.category_id, ctx.section_type)

\* Mutant: the Balance Sheet rule takes the category as grandparent, as the
\* Profit & Loss rule does.
ProcessBalanceSheetHierarchy_Category(ctx, section_display_name, section_id) ==
    Context(section_display_name, section_id,
            ctx.category_name, ctx.category_id,
            ctx.category_name, ctx.category_id, ctx.section_type)

\* lines 350-365
ProcessBalanceSheetHierarchy(ctx, section_display_name, section_id) ==
    Context(section_display_name, section_id,
            ctx.parent_name, ctx.parent_id,
            ctx.category_name, ctx.category_id, ctx.section_type)

\* Mutant: a second-level section is not remembered as the section type.
SectionContext_NoSectionType(row, is_profit_loss, ctx) ==
    LET header_col_data == row.Header
        section_display_name ==
            IF header_col_data # <<>> THEN header_col_data[1].value ELSE <<>>
        section_id ==
            IF header_col_data # <<>> THEN CleanId(header_col_data[1].id) ELSE <<>>
    IN  IF ctx.category_name = <<>>
        THEN Context(<<>>, <<>>, <<>>, <<>>, section_display_name, <<>>, <<>>)
        ELSE IF ctx.parent_name = <<>>
        THEN Context(section_display_name, section_id, <<>>, <<>>,
                     ctx.category_name, ctx.category_id, <<>>)
        ELSE IF is_profit_loss
        THEN ProcessProfitLossHierarchy(ctx, section_display_name, section_id)
        ELSE ProcessBalanceSheetHierarchy(ctx, section_display_name, section_id)

\* lines 283-325: the context a Section row hands to its nested rows
SectionContext(row, is_profit_loss, ctx) ==
    LET header_col_data == row.Header
        section_display_name ==
            IF header_col_data # <<>> THEN header_col_data[1].value ELSE <<>>
        section_id ==
            IF header_col_data # <<>> THEN CleanId(header_col_data[1].id) ELSE <<>>
    IN  IF ctx.category_name = <<>>
        THEN Context(<<>>, <<>>, <<>>, <<>>, section_display_name, <<>>, <<>>)
        ELSE IF ctx.parent_name = <<>>
        THEN Context(section_display_name, section_id, <<>>, <<>>,
                     ctx.category_name, ctx.category_id, section_display_name)
        ELSE IF is_profit_loss
        THEN ProcessProfitLossHierarchy(ctx, section_display_name, section_id)
        ELSE ProcessBalanceSheetHierarchy(ctx, section_display_name, section_id)

\* Mutant: the rows after a section go on under the section's context.
SiblingContext_Leaked(ctx, nested_ctx) == nested_ctx

\* lines 209, 327-331: the loop over rows goes on under its own arguments once
\* the recursive call for a section has returned
SiblingContext(ctx, nested_ctx) == ctx

\* lines 198-331: the records _process_rows appends for rows under ctx
RECURSIVE ProcessRows(_, _, _, _, _)
ProcessRows(rows, header, classes, is_profit_loss, ctx) ==
    IF rows = <<>> THEN <<>>
    ELSE LET row == Head(rows)
             here ==
                 IF row.type = "Data"
                 THEN DataRecords(row, header, classes, is_profit_loss, ctx)
                 ELSE IF row.type = "Section"
                 THEN ProcessRows(row.Rows, header, classes, is_profit_loss,
                                  SectionContext(row, is_profit_loss, ctx))
                 ELSE <<>>
             after ==
                 IF row.type = "Section"
                 THEN SiblingContext(ctx, SectionContext(row, is_profit_loss, ctx))
                 ELSE ctx
         IN  here \o ProcessRows(Tail(rows), header, classes,
                                 is_profit_loss, after)

\* line 182: columns[1:]
AfterFirst(columns) == IF columns = <<>> THEN <<>> ELSE Tail(columns)

\* lines 180-190: column_classes, built once the response has rows (line 167)
ParsedColumnClasses(json) == ColumnClasses(AfterFirst(json.Columns), 1, <<>>)

\* lines 161-196: what parse_response emits for a response
ParseResponse(json, path_tail) ==
    IF json.Rows = <<>> THEN <<>>
    ELSE ProcessRows(json.Rows, json.Header,
                     ParsedColumnClasses(json),
                     IsProfitLoss(path_tail), RootContext)

(***************************************************************************)
(* Report responses the flattener is run on                                *)
(***************************************************************************)
\* Bounds: at most MaxClassColumns columns after the account column, and
\* sections nested at most MaxDepth deep.
MaxClassColumns == 4
MaxDepth == 4

Cell(value, id) == [value |-> value, id |-> id]
DataRow(cells) == [type |-> "Data", ColData |-> cells, group |-> <<>>]
SectionRow(header_cells, rows) ==
    [type |-> "Section", Header |-> header_cells, Rows |-> rows, group |-> sAssets]

ReportHeader ==
    [StartPeriod |-> Format(Date(2024, 1, 1)), EndPeriod |-> Format(Date(2024, 1, 31)),
     Currency |-> sUSD]

\* Column titles: plain, with a space and a hyphen, empty, and two spellings
\* of the total column.
ColumnTitles == {<<>>, sClassA, sClassDashed, sTotalUpper, sTotalSpaced}
RECURSIVE SeqsUpTo(_, _)
SeqsUpTo(S, n) ==
    IF n = 0 THEN {<<>>}
    ELSE LET shorter == SeqsUpTo(S, n - 1)
         IN  shorter \cup { Append(q, x) : q \in { r \in shorter : Len(r) = n - 1 }, x \in S }
ColumnLists(max_columns) ==
    { <<[ColTitle |-> sAccount]>> \o [i \in 1..Len(titles) |-> [ColTitle |-> titles[i]]] :
        titles \in SeqsUpTo(ColumnTitles, max_columns) }
TwoClassColumns ==
    <<[ColTitle |-> sAccount], [ColTitle |-> sClassA], [ColTitle |-> sClassB]>>

\* Data rows: three cells, five cells, two cells (an account named like a section, an id
\* with the index marker), one cell, an unnamed account (an id with the marker
\* twice), and a row that is neither Data nor Section.
CashRow == DataRow(<<Cell(sCash, <<"3", "5">>), Cell(<<"1", "0">>, <<>>), Cell(<<"2", "0">>, <<>>)>>)
CheckingRow == DataRow(<<Cell(sChecking, <<"8", "7", " ", "a", "t", " ", "i", "n", "d", "e", "x", " ", "3">>), Cell(<<"5">>, <<>>)>>)
WideRow == DataRow(<<Cell(sCash, <<"3", "5">>), Cell(<<"1", "0">>, <<>>), Cell(<<"2", "0">>, <<>>), Cell(<<"3", "0">>, <<>>), Cell(<<"4", "0">>, <<>>)>>)
OneCellRow == DataRow(<<Cell(sCash, <<"3", "5">>)>>)
UnnamedRow == DataRow(<<Cell(<<>>, <<"7">> \o sAtIndex \o <<"1">> \o sAtIndex \o <<"2">>), Cell(<<"7">>, <<>>), Cell(<<"8">>, <<>>)>>)
SummaryRow == [type |-> "Summary", ColData |-> <<Cell(sCash, <<>>), Cell(<<"3", "0">>, <<>>)>>,
               group |-> <<>>]
LeafRows ==
    {<<>>, <<CheckingRow>>, <<OneCellRow>>, <<CashRow, CheckingRow>>,
     <<UnnamedRow, SummaryRow>>}

\* Section headers: a name and an id; one header has no cell at all.
SectionHeaders ==
    { <<Cell(sCurrentAssets, <<"2", " ", "a", "t", " ", "i", "n", "d", "e", "x", " ", "5">>)>>,
      <<Cell(sChecking, <<"8", "7">>)>>, <<>> }

\* The rows nested along a chain of section headers with leaf at the bottom;
\* with siblings, every section is followed by a data row and by a section of
\* its own level that holds one data row.
RECURSIVE ChainRows(_, _, _)
ChainRows(chain, leaf, siblings) ==
    IF chain = <<>> THEN leaf
    ELSE <<SectionRow(Head(chain), ChainRows(Tail(chain), leaf, siblings))>>
         \o (IF siblings
             THEN <<CashRow, SectionRow(<<Cell(sChecking, <<"8", "7">>)>>, <<CashRow>>)>>
             ELSE <<>>)

ReportTrees(max_depth) ==
    { ChainRows(chain, leaf, FALSE) :
        chain \in SeqsUpTo(SectionHeaders, max_depth), leaf \in LeafRows }
    \cup
    { ChainRows(chain, <<CashRow>>, TRUE) : chain \in SeqsUpTo(SectionHeaders, max_depth) }

\* Responses: every column list over a small tree, and every tree under two
\* class columns.
ReportResponses(max_columns, max_depth) ==
    { [Header |-> ReportHeader, Columns |-> cols,
       Rows |-> ChainRows(<<<<Cell(sAssets, <<>>)>>>>, <<CashRow, WideRow>>, FALSE)] :
        cols \in ColumnLists(max_columns) }
    \cup
    { [Header |-> ReportHeader, Columns |-> TwoClassColumns, Rows |-> rows] :
        rows \in ReportTrees(max_depth) }

ReportIdle ==
    /\ report_kind = "BalanceSheet"
    /\ response_json = [Header |-> ReportHeader, Columns |-> <<>>, Rows |-> <<>>]
    /\ parse_pc = "idle"
    /\ column_classes = <<>>
    /\ accounts = <<>>
    /\ emitted_under = <<>>

ReportInit ==
    /\ report_kind \in {"BalanceSheet", "ProfitAndLoss"}
    /\ response_json \in ReportResponses(MaxClassColumns, MaxDepth)
    /\ parse_pc = "received"
    /\ column_classes = <<>>
    /\ accounts = <<>>
    /\ emitted_under = <<>>

\* the records of what was emitted, and the context each was emitted under
RecordsOf(emitted) == [i \in 1..Len(emitted) |-> emitted[i].record]
ContextsOf(records, emitted) == [i \in 1..Len(records) |-> emitted[i].ctx]

\* parse_response on the received response
ParseResponseCall ==
    /\ parse_pc = "received"
    /\ parse_pc' = "parsed"
    /\ accounts' = RecordsOf(ParseResponse(response_json, report_kind))
    /\ emitted_under' = ContextsOf(accounts', ParseResponse(response_json, report_kind))
    /\ column_classes' = IF response_json.Rows = <<>> THEN <<>>
                         ELSE ParsedColumnClasses(response_json)
    /\ UNCHANGED <<report_kind, response_json>>

(***************************************************************************)
(* Specifications                                                          *)
(***************************************************************************)
SlicesStep == StreamSlices /\ UNCHANGED <<token_vars, report_vars>>
ParamsStep == RequestParams /\ UNCHANGED <<token_vars, report_vars>>
SlicerNext == SlicesStep \/ ParamsStep
InitSlicer == SlicerInit /\ TokenInit /\ ReportIdle
SpecSlicer == InitSlicer /\ [][SlicerNext]_vars

TickStep == Tick /\ UNCHANGED <<slicer_vars, report_vars>>
RefreshStep == RefreshAccessToken /\ UNCHANGED <<slicer_vars, report_vars>>
TokenNext == TickStep \/ RefreshStep
InitToken == SlicerIdle /\ TokenInit /\ ReportIdle
SpecToken == InitToken /\ [][TokenNext]_vars

ReportNext == ParseResponseCall /\ UNCHANGED <<slicer_vars, token_vars>>
InitReport == SlicerIdle /\ TokenInit /\ ReportInit
SpecReport == InitReport /\ [][ReportNext]_vars

(***************************************************************************)
(* Period slicer: properties                                               *)
(***************************************************************************)
\* Both dates of the call are known: a configured start that parses, and an
\* end that parses or, when none is configured, the day read from the clock.
SliceDatesKnown ==
    /\ slices_call.kind # "pending"
    /\ Truthy(start_date) /\ Strptime(start_date).ok
    /\ Truthy(end_date) => Strptime(end_date).ok
SliceStart == Strptime(start_date).date
SliceEnd == IF Truthy(end_date) THEN Strptime(end_date).date ELSE today

\* The calendar, stated apart from the code: the last day of a month.
LastDayOfMonth(y, m) ==
    CASE m = 2 -> (IF (y % 4 = 0 /\ y % 100 # 0) \/ y % 400 = 0 THEN 29 ELSE 28)
      [] m \in {4, 6, 9, 11} -> 30
      [] OTHER -> 31

\* The calendar-month partition of [start, end]: one slice per month from the
\* month of start to the month of end, the first cut at start, the last at end.
MonthPartition(start, end) ==
    LET first == MonthIndex(start.year, start.month)
        n == MonthIndex(end.year, end.month) - first + 1
    IN  [ i \in 1..n |->
            LET y == (first + i - 1) \div 12
                m == ((first + i - 1) % 12) + 1
            IN  SliceDict(Format(IF i = 1 THEN start ELSE Date(y, m, 1)),
                          Format(IF i = n THEN end
                                 ELSE Date(y, m, LastDayOfMonth(y, m)))) ]

\* C1: for start <= end, stream_slices returns the calendar-month partition of
\* [start, end]: chronological, first slice from start, last slice to end, every
\* other boundary at a month's first or last day (29 February in a leap year,
\* January after December).
C1_MonthPartition ==
    (SliceDatesKnown /\ DateLE(SliceStart, SliceEnd))
        => slices_call = Return(MonthPartition(SliceStart, SliceEnd))

\* C1 witness: 2024-01-15..2024-03-10 gave [01-15,01-31], [02-01,02-29], [03-01,03-10].
C1_Witness ==
    /\ start_date = <<"2", "0", "2", "4", "-", "0", "1", "-", "1", "5">>
    /\ end_date = <<"2", "0", "2", "4", "-", "0", "3", "-", "1", "0">>
    /\ slices_call.kind = "return"
    /\ slices_call.value =
         << [start_date |-> <<"2", "0", "2", "4", "-", "0", "1", "-", "1", "5">>, end_date |-> <<"2", "0", "2", "4", "-", "0", "1", "-", "3", "1">>],
            [start_date |-> <<"2", "0", "2", "4", "-", "0", "2", "-", "0", "1">>, end_date |-> <<"2", "0", "2", "4", "-", "0", "2", "-", "2", "9">>],
            [start_date |-> <<"2", "0", "2", "4", "-", "0", "3", "-", "0", "1">>, end_date |-> <<"2", "0", "2", "4", "-", "0", "3", "-", "1", "0">>] >>

\* C2 (as claimed): with both dates given and start > end, stream_slices fails
\* with InvalidRangeError and returns no slice sequence.
C2_InvalidRangeError ==
    (SliceDatesKnown /\ Truthy(end_date) /\ DateGT(SliceStart, SliceEnd))
        => slices_call = Raise("InvalidRangeError")

\* C3: without a start date, stream_slices returns exactly one slice and that
\* slice has no date field, whatever the end date.
C3_SingleSliceWithoutDates ==
    (slices_call.kind # "pending" /\ ~Truthy(start_date))
        => /\ slices_call.kind = "return"
           /\ Len(slices_call.value) = 1
           /\ DOMAIN slices_call.value[1] = {}

\* C3 witness: no start date, an end date configured, and the call has returned.
C3_Witness ==
    /\ start_date = None
    /\ Truthy(end_date) /\ Strptime(end_date).ok
    /\ slices_call.kind = "return"

(***************************************************************************)
(* Authenticator: properties                                               *)
(***************************************************************************)
\* C4: token_has_expired is true exactly when no expiry is recorded or the
\* current time has reached the recorded expiry (expiry = now counts as stale).
C4_StaleIffExpiryReached ==
    /\ token_expiry_date = <<>> => TokenHasExpired
    /\ token_expiry_date # <<>> =>
         /\ token_expiry_date[1] <= now => TokenHasExpired
         /\ token_expiry_date[1] > now => ~TokenHasExpired

\* C4 witness: a refresh recorded an expiry and the clock stands exactly on it.
C4_Witness ==
    /\ token_expiry_date # <<>>
    /\ now > 0
    /\ token_expiry_date[1] = now
    /\ TokenHasExpired

\* a response whose status is not 2xx
NotSuccess(response) == response.status_code < 200 \/ response.status_code > 299

\* C5 (as claimed): a response that is not a success response makes
\* refresh_access_token fail, with an error that carries the response.
C5_NonSuccessFails ==
    (refresh_call.kind # "pending" /\ NotSuccess(last_response))
        => /\ refresh_call.kind = "raise"
           /\ refresh_call.cause.response = last_response

Parsed == parse_pc = "parsed" /\ response_json.Rows # <<>>

\* The labels of the columns after the first, none dropped.
AllLabels(columns) ==
    [ i \in 1..(Len(columns) - 1) |-> ClassName(columns[i + 1].ColTitle, i) ]
IsTotalLabel(label) == Lower(label) = sTotalLower
RECURSIVE WithoutTotals(_)
WithoutTotals(labels) ==
    IF labels = <<>> THEN <<>>
    ELSE IF IsTotalLabel(Head(labels)) THEN WithoutTotals(Tail(labels))
         ELSE <<Head(labels)>> \o WithoutTotals(Tail(labels))

\* C8 (as claimed): a column labelled "Total" (in any case) is dropped if and
\* only if the report has more than one class column.
C8_TotalDroppedIffSeveralColumns ==
    Parsed =>
        column_classes = IF Len(response_json.Columns) - 1 > 1
                         THEN WithoutTotals(AllLabels(response_json.Columns))
                         ELSE AllLabels(response_json.Columns)

\* The data rows of a tree, at any depth: all of them, and those with at least
\* two cells.
RECURSIVE CountDataRows(_, _)
CountDataRows(rows, min_cells) ==
    IF rows = <<>> THEN 0
    ELSE (IF Head(rows).type = "Data"
          THEN (IF Len(Head(rows).ColData) >= min_cells THEN 1 ELSE 0)
          ELSE IF Head(rows).type = "Section"
          THEN CountDataRows(Head(rows).Rows, min_cells)
          ELSE 0)
         + CountDataRows(Tail(rows), min_cells)

\* a record without its Class and Total_Money
WithoutClassFields(record) ==
    [ f \in (DOMAIN record) \ {"Class", "Total_Money"} |-> record[f] ]

\* The records come in runs of one per retained class column, in the order of
\* the columns, and the records of a run differ only in Class and Total_Money.
OneRecordPerClass ==
    \A j \in 1..Len(accounts) :
        LET k == Len(column_classes)
            first == ((j - 1) \div k) * k + 1
        IN  /\ accounts[j].Class = column_classes[((j - 1) % k) + 1]
            /\ WithoutClassFields(accounts[j]) = WithoutClassFields(accounts[first])

\* C9 (amended): every data row with at least two cells, at any depth, yields
\* exactly one record per retained class column, and these differ only in Class
\* and Total_Money; a data row with fewer than two cells yields none. A tree
\* with N data rows of at least two cells and k class columns yields N*k records.
C9_RecordsPerDataRow ==
    Parsed =>
        /\ Len(accounts) = CountDataRows(response_json.Rows, 2) * Len(column_classes)
        /\ OneRecordPerClass

\* C9 witness: two class columns, sections three deep, and 2N records for the
\* N >= 2 data rows, one of which has two cells only.
C9_Witness ==
    /\ Parsed
    /\ Len(column_classes) = 2
    /\ Len(accounts) = 2 * CountDataRows(response_json.Rows, 0)
    /\ Len(accounts) >= 4
    /\ \E i \in 1..Len(accounts) :
          /\ emitted_under[i].grandparent_name # <<>>
          /\ accounts[i].Total_Money = <<>>

\* C9 (as claimed): every data row, whatever the number of its cells, yields one
\* record per retained class column, so N data rows yield N*k records.
C9_AnyNumberOfCells ==
    Parsed =>
        Len(accounts) = CountDataRows(response_json.Rows, 0) * Len(column_classes)

\* the path of the labels that are non-empty and not already in the path
RECURSIVE DistinctLabels(_, _)
DistinctLabels(labels, path) ==
    IF labels = <<>> THEN path
    ELSE IF Head(labels) # <<>> /\ ~InPath(path, Head(labels))
         THEN DistinctLabels(Tail(labels), Append(path, Head(labels)))
         ELSE DistinctLabels(Tail(labels), path)

\* C10 (as claimed): FullAccountName is the ':'-join of category, sectionType,
\* grandparent, parent and account name, each included only if non-empty and not
\* already in the path, so that no label occurs twice.
C10_NoLabelTwice ==
    \A i \in 1..Len(accounts) :
        accounts[i].FullAccountName =
            Join(DistinctLabels(<<emitted_under[i].category_name,
                                  emitted_under[i].section_type,
                                  emitted_under[i].grandparent_name,
                                  emitted_under[i].parent_name,
                                  accounts[i]._Account>>, <<>>), sColon)

(***************************************************************************)
(* Report flattener: the ancestry of a record                              *)
(***************************************************************************)
\* the display name and the id a section header gives (nothing without a cell)
HeaderName(header_cells) == IF header_cells # <<>> THEN header_cells[1].value ELSE <<>>
HeaderId(header_cells) == IF header_cells # <<>> THEN header_cells[1].id ELSE <<>>

\* The data rows of a tree that have at least two cells, in pre-order, each
\* with the headers of the sections that enclose it, outermost first.
RECURSIVE RowsWithChains(_, _)
RowsWithChains(rows, chain) ==
    IF rows = <<>> THEN <<>>
    ELSE (IF Head(rows).type = "Data"
          THEN (IF Len(Head(rows).ColData) >= 2
                THEN <<[row |-> Head(rows), chain |-> chain]>>
                ELSE <<>>)
          ELSE IF Head(rows).type = "Section"
          THEN RowsWithChains(Head(rows).Rows, Append(chain, Head(rows).Header))
          ELSE <<>>)
         \o RowsWithChains(Tail(rows), chain)

\* the data row record j was emitted for (records come one per class column)
SourceOf(j) ==
    RowsWithChains(response_json.Rows, <<>>)[((j - 1) \div Len(column_classes)) + 1]
ChainOf(j) == SourceOf(j).chain

\* every header of chain[from..to] has a non-empty display name
NamedBetween(chain, from, to) ==
    \A d \in from..to : HeaderName(chain[d]) # <<>>

\* C11 (amended): below a top-level section with a non-empty display name, that
\* section is the category of every record of its subtree; the records directly
\* under it have an empty parent, grandparent and section type, and the records
\* directly under a depth-1 section have that section as parent and as section
\* type and an empty grandparent. Below a top-level section without a display
\* name, a depth-1 section is treated as a top-level one: it is the category,
\* and parent, grandparent and section type are empty.
C11_ContextByCategoryAndParent ==
    Parsed =>
        \A j \in 1..Len(accounts) :
            LET chain == ChainOf(j)
                ctx == emitted_under[j]
            IN  /\ (Len(chain) >= 1 /\ HeaderName(chain[1]) # <<>>) =>
                       /\ ctx.category_name = HeaderName(chain[1])
                       /\ Len(chain) = 1 =>
                              /\ ctx.parent_name = <<>>
                              /\ ctx.grandparent_name = <<>>
                              /\ ctx.section_type = <<>>
                       /\ Len(chain) = 2 =>
                              /\ ctx.parent_name = HeaderName(chain[2])
                              /\ ctx.section_type = HeaderName(chain[2])
                              /\ ctx.grandparent_name = <<>>
                /\ (Len(chain) = 2 /\ HeaderName(chain[1]) = <<>>) =>
                       /\ ctx.category_name = HeaderName(chain[2])
                       /\ ctx.parent_name = <<>>
                       /\ ctx.grandparent_name = <<>>
                       /\ ctx.section_type = <<>>

\* C11 witness: a record directly under a named depth-1 section of a named
\* top-level section, and a record under a depth-1 section whose top-level
\* section has no display name.
C11_Witness ==
    /\ Parsed
    /\ \E j \in 1..Len(accounts) :
          /\ Len(ChainOf(j)) = 2
          /\ NamedBetween(ChainOf(j), 1, 2)
          /\ HeaderName(ChainOf(j)[1]) # HeaderName(ChainOf(j)[2])
          /\ emitted_under[j].section_type = HeaderName(ChainOf(j)[2])

\* C11 (as claimed): the context is determined by the depth, whatever the
\* display names: a depth-0 section is the category of its subtree, with parent,
\* grandparent and section type empty directly under it; a depth-1 section is
\* the parent and the section type, with the category kept and the grandparent
\* empty.
C11_ContextByDepth ==
    Parsed =>
        \A j \in 1..Len(accounts) :
            LET chain == ChainOf(j)
                ctx == emitted_under[j]
            IN  /\ Len(chain) >= 1 => ctx.category_name = HeaderName(chain[1])
                /\ Len(chain) = 1 =>
                       /\ ctx.parent_name = <<>>
                       /\ ctx.grandparent_name = <<>>
                       /\ ctx.section_type = <<>>
                /\ Len(chain) = 2 =>
                       /\ ctx.parent_name = HeaderName(chain[2])
                       /\ ctx.section_type = HeaderName(chain[2])
                       /\ ctx.grandparent_name = <<>>


\* an id as the source gives it, cut before its first " at index " (if any)
MarkerPositions(id) == { p \in 1..Len(id) : OccursAt(id, sAtIndex, p) }
StrippedId(id) ==
    IF MarkerPositions(id) = {} THEN id
    ELSE LET first == CHOOSE p \in MarkerPositions(id) :
                          \A q \in MarkerPositions(id) : p <= q
         IN  Slice(id, 1, first - 1)

\* record j has the innermost section of its chain as parent and the section
\* one level up as grandparent, by name and by id
ParentAndGrandparentFromChain(j) ==
    LET chain == ChainOf(j)
        n == Len(chain)
    IN  /\ emitted_under[j].parent_name = HeaderName(chain[n])
        /\ emitted_under[j].parent_id = StrippedId(HeaderId(chain[n]))
        /\ emitted_under[j].grandparent_name = HeaderName(chain[n - 1])
        /\ emitted_under[j].grandparent_id = StrippedId(HeaderId(chain[n - 1]))
        /\ accounts[j].ParentAccountName = HeaderName(chain[n])
        /\ accounts[j].ParentAccountId = StrippedId(HeaderId(chain[n]))
        /\ accounts[j].GrandParentAccountName = HeaderName(chain[n - 1])
        /\ accounts[j].GrandParentAccountId = StrippedId(HeaderId(chain[n - 1]))

\* C12 (amended): in a Balance Sheet report, a data row below a section at
\* depth >= 2 all of whose enclosing sections have a non-empty display name has
\* that innermost section as parent (name and id) and the section one level up
\* as grandparent (name and id); the category is still the top-level section
\* and the section type still the depth-1 section.
C12_BalanceSheetHierarchy ==
    (Parsed /\ ~IsProfitLoss(report_kind)) =>
        \A j \in 1..Len(accounts) :
            (Len(ChainOf(j)) >= 3 /\ NamedBetween(ChainOf(j), 1, Len(ChainOf(j)) - 1)) =>
                /\ ParentAndGrandparentFromChain(j)
                /\ emitted_under[j].category_name = HeaderName(ChainOf(j)[1])
                /\ emitted_under[j].section_type = HeaderName(ChainOf(j)[2])
                /\ accounts[j].CategoryAccountName = HeaderName(ChainOf(j)[1])

\* C12 witness: a Balance Sheet record four sections deep, all named, whose
\* grandparent is the depth-2 section and differs from category and parent.
C12_Witness ==
    /\ Parsed
    /\ ~IsProfitLoss(report_kind)
    /\ \E j \in 1..Len(accounts) :
          /\ Len(ChainOf(j)) = 4
          /\ NamedBetween(ChainOf(j), 1, 4)
          /\ accounts[j].GrandParentAccountName = HeaderName(ChainOf(j)[3])
          /\ accounts[j].GrandParentAccountName # accounts[j].CategoryAccountName
          /\ accounts[j].GrandParentAccountName # accounts[j].ParentAccountName
          /\ accounts[j].GrandParentAccountId # <<>>

\* C12 (as claimed): in a Balance Sheet report every data row below a section
\* at depth >= 2 has its innermost enclosing section as parent and the section
\* one level up as grandparent, by name and by id.
C12_InnermostIsParent ==
    (Parsed /\ ~IsProfitLoss(report_kind)) =>
        \A j \in 1..Len(accounts) :
            Len(ChainOf(j)) >= 3 => ParentAndGrandparentFromChain(j)


\* C13: in a Profit & Loss report every record with a non-empty parent has the
\* category as GrandParentAccountName: the grandparent handed down by a section
\* is the category whenever it is set, and a data row whose parent is set but
\* whose grandparent is empty takes the category. In a Balance Sheet report a
\* data row whose parent is set and whose grandparent is empty keeps an empty
\* GrandParentAccountName.
C13_ProfitLossGrandparentIsCategory ==
    Parsed =>
        \A j \in 1..Len(accounts) :
            IF IsProfitLoss(report_kind)
            THEN /\ accounts[j].ParentAccountName # <<>> =>
                        /\ accounts[j].GrandParentAccountName = accounts[j].CategoryAccountName
                        /\ accounts[j].GrandParentAccountName # <<>>
                 /\ emitted_under[j].grandparent_name # <<>> =>
                        emitted_under[j].grandparent_name = emitted_under[j].category_name
                 /\ (Len(ChainOf(j)) >= 2 /\ NamedBetween(ChainOf(j), 1, Len(ChainOf(j)))) =>
                        accounts[j].GrandParentAccountName = HeaderName(ChainOf(j)[1])
            ELSE /\ accounts[j].GrandParentAccountName = emitted_under[j].grandparent_name
                 /\ Len(ChainOf(j)) = 2 => accounts[j].GrandParentAccountName = <<>>

\* C13 witness: a Profit & Loss record directly under a depth-1 section (its
\* parent), with no grandparent section, that records the category.
C13_Witness ==
    /\ Parsed
    /\ IsProfitLoss(report_kind)
    /\ \E j \in 1..Len(accounts) :
          /\ Len(ChainOf(j)) = 2
          /\ accounts[j].ParentAccountName = HeaderName(ChainOf(j)[2])
          /\ accounts[j].ParentAccountName # <<>>
          /\ emitted_under[j].grandparent_name = <<>>
          /\ accounts[j].GrandParentAccountName = HeaderName(ChainOf(j)[1])
          /\ accounts[j].GrandParentAccountName # accounts[j].ParentAccountName


\* the context reached from ctx by entering, one after the other, the sections
\* whose headers are in chain
RECURSIVE ContextAlong(_, _, _)
ContextAlong(chain, is_profit_loss, ctx) ==
    IF chain = <<>> THEN ctx
    ELSE ContextAlong(Tail(chain), is_profit_loss,
                      SectionContext([Header |-> Head(chain)], is_profit_loss, ctx))

\* C14: every row is processed under the context its rows list was entered
\* with: the context of a record is the one reached from the empty context
\* along the chain of its ancestor sections, and the record is the one built
\* from the report header, the class column, the row and that context, whatever
\* rows were processed before it.
C14_NoContextLeakToSiblings ==
    Parsed =>
        \A j \in 1..Len(accounts) :
            LET k == Len(column_classes)
                c == ((j - 1) % k) + 1
                own == ContextAlong(ChainOf(j), IsProfitLoss(report_kind), RootContext)
            IN  /\ emitted_under[j] = own
                /\ accounts[j] = AccountRecord(SourceOf(j).row, response_json.Header,
                                               IsProfitLoss(report_kind), own,
                                               column_classes[c], c)

\* C14 witness: a record emitted after the records of a sibling section that
\* lies deeper, under a context other than that sibling's.
C14_Witness ==
    /\ Parsed
    /\ \E i, j \in 1..Len(accounts) :
          /\ i < j
          /\ Len(ChainOf(j)) >= 1
          /\ Len(ChainOf(i)) > Len(ChainOf(j))
          /\ emitted_under[i] # emitted_under[j]
          /\ emitted_under[j].category_name # <<>>


\* the ids the headers of a chain give, cut before the marker
StrippedChainIds(chain) == { StrippedId(HeaderId(chain[d])) : d \in 1..Len(chain) }

\* C15: no id field of a record contains " at index ": the account id is the
\* id of the row's first cell cut before the marker (unchanged without it), the
\* parent id is empty or the cut id of the innermost enclosing section, the
\* grandparent id is empty or the cut id of an enclosing section, and the
\* category id is empty.
C15_NoIndexMarkerInIds ==
    Parsed =>
        \A j \in 1..Len(accounts) :
            /\ \A f \in {"_Account_id", "ParentAccountId", "GrandParentAccountId",
                         "CategoryAccountId"} :
                   MarkerPositions(accounts[j][f]) = {}
            /\ accounts[j]._Account_id = StrippedId(SourceOf(j).row.ColData[1].id)
            /\ accounts[j].ParentAccountId # <<>> =>
                   accounts[j].ParentAccountId =
                       StrippedId(HeaderId(ChainOf(j)[Len(ChainOf(j))]))
            /\ accounts[j].GrandParentAccountId # <<>> =>
                   accounts[j].GrandParentAccountId \in StrippedChainIds(ChainOf(j))
            /\ accounts[j].CategoryAccountId = <<>>

\* C15 witness: a record whose account id came as "87 at index 3" and is stored
\* as "87", whose grandparent id came as "2 at index 5" and is stored as "2",
\* and whose parent id "87" came without the marker.
C15_Witness ==
    /\ Parsed
    /\ \E j \in 1..Len(accounts) :
          /\ MarkerPositions(SourceOf(j).row.ColData[1].id) # {}
          /\ accounts[j]._Account_id = <<"8", "7">>
          /\ Len(ChainOf(j)) >= 3
          /\ MarkerPositions(HeaderId(ChainOf(j)[Len(ChainOf(j)) - 1])) # {}
          /\ accounts[j].GrandParentAccountId = <<"2">>
          /\ HeaderId(ChainOf(j)[Len(ChainOf(j))]) = <<"8", "7">>
          /\ accounts[j].ParentAccountId = <<"8", "7">>


\* the schema declares n fields, all of type string, and every record carries
\* exactly the declared fields
SchemaOfStringFields(n) ==
    /\ Cardinality(DOMAIN GetJsonSchema.properties) = n
    /\ \A f \in DOMAIN GetJsonSchema.properties :
           GetJsonSchema.properties[f] = [type |-> "string"]
    /\ \A j \in 1..Len(accounts) : DOMAIN accounts[j] = DOMAIN GetJsonSchema.properties

\* C16 (amended): the declared schema consists of exactly 17 fields, every one
\* of them string-typed, and every emitted record carries exactly the fields the
\* schema declares.
C16_SeventeenStringFields == SchemaOfStringFields(17)

\* C16 witness: records have been emitted.
C16_Witness ==
    /\ Parsed
    /\ Len(accounts) >= 2
    /\ DOMAIN accounts[1] = DOMAIN GetJsonSchema.properties
    /\ "Total_Money" \in DOMAIN accounts[Len(accounts)]

\* C16 (as claimed): the declared schema consists of exactly 18 string-typed
\* fields, and every emitted record carries exactly those.
C16_EighteenStringFields == SchemaOfStringFields(18)


\* The positions (1 for the first column after the account column) of the
\* columns whose labels parse_response retained: a column labelled total is
\* left out once two labels have been retained.
RECURSIVE RetainedPositions(_, _, _)
RetainedPositions(cols, i, kept) ==
    IF cols = <<>> THEN kept
    ELSE IF Len(kept) > 1 /\ IsTotalLabel(ClassName(Head(cols).ColTitle, i))
         THEN RetainedPositions(Tail(cols), i + 1, kept)
         ELSE RetainedPositions(Tail(cols), i + 1, Append(kept, i))

\* the position of the report column the Class of record j was derived from
ColumnPositionOf(j) ==
    RetainedPositions(AfterFirst(response_json.Columns), 1, <<>>)
        [((j - 1) % Len(column_classes)) + 1]

\* the value of the cell of a data row at a column position, "" without a cell
CellAt(col_data, position) ==
    IF position + 1 <= Len(col_data) THEN col_data[position + 1].value ELSE <<>>

\* C18 (as claimed): the Class of a record is the label of a report column,
\* and Total_Money is the value of the row's cell at the position of that column
\* (the empty string when the row has no such cell), also when a total column
\* was dropped before later class columns.
C18_AmountFromTheColumnOfTheClass ==
    Parsed =>
        \A j \in 1..Len(accounts) :
            /\ accounts[j].Class =
                   ClassName(response_json.Columns[ColumnPositionOf(j) + 1].ColTitle,
                             ColumnPositionOf(j))
            /\ accounts[j].Total_Money =
                   CellAt(SourceOf(j).row.ColData, ColumnPositionOf(j))


(***************************************************************************)
(* Report request: properties                                              *)
(***************************************************************************)
\* request_params was called with a slice stream_slices returned
CalledWithSlice == params_call.kind # "pending" /\ stream_slice # NoSlice
DateKeys == {"start_date", "end_date"}

\* the parameters are the three fixed ones and the two dates of the slice
CarriesSliceDates(params, slice) ==
    /\ DOMAIN params = (DOMAIN BaseParams) \cup DateKeys
    /\ \A k \in DOMAIN BaseParams : params[k] = BaseParams[k]
    /\ params.start_date = slice.start_date
    /\ params.end_date = slice.end_date

\* C17 (amended): for a slice with start_date and end_date the request has
\* exactly those two values; for the sentinel slice produced when start is
\* absent the request has no start_date, and it has an end_date parameter
\* exactly when the stream's end date is configured: the configured date, the
\* call failing when that is not a calendar date.
C17_SliceDatesOrConfiguredEnd ==
    CalledWithSlice =>
        IF DOMAIN stream_slice # {}
        THEN /\ params_call.kind = "return"
             /\ CarriesSliceDates(params_call.value, stream_slice)
        ELSE IF ~Truthy(end_date)
        THEN /\ params_call.kind = "return"
             /\ params_call.value = BaseParams
        ELSE IF Strptime(end_date).ok
        THEN /\ params_call.kind = "return"
             /\ DOMAIN params_call.value = (DOMAIN BaseParams) \cup {"end_date"}
             /\ params_call.value.end_date = end_date
        ELSE params_call.kind = "raise"

\* C17 witness: the sentinel slice of a stream with an end date but no start
\* date, whose request carries that end date.
C17_Witness ==
    /\ CalledWithSlice
    /\ DOMAIN stream_slice = {}
    /\ slices_call.value = <<stream_slice>>
    /\ params_call.kind = "return"
    /\ "start_date" \notin DOMAIN params_call.value
    /\ "end_date" \in DOMAIN params_call.value
    /\ params_call.value.end_date = <<"2", "0", "2", "4", "-", "0", "2", "-", "2", "9">>

\* C17 (as claimed): the request carries exactly the slice's dates: both dates
\* of a dated slice, and neither a start_date nor an end_date for the sentinel
\* slice, whatever end date the stream is configured with.
C17_ExactlyTheSliceDates ==
    (CalledWithSlice /\ params_call.kind = "return") =>
        IF DOMAIN stream_slice # {}
        THEN CarriesSliceDates(params_call.value, stream_slice)
        ELSE DOMAIN params_call.value \cap DateKeys = {}


(***************************************************************************)
(* Authenticator: the refresh token of an exchange                         *)
(***************************************************************************)
\* C19 (as claimed): every credential exchange sends the refresh token most
\* recently returned by an earlier successful refresh, or the configured one
\* if no earlier response returned one; so a refresh token that was rotated
\* out is never sent again.
C19_SendsLatestRefreshToken ==
    form_data # NoForm => form_data.refresh_token = returned_before


=============================================================================
